---- MODULE Spec2Model ----
(***************************************************************************)
(* Model of the L-IPAMD IP allocation datastore (package datastore) of     *)
(* amazon-vpc-cni-k8s.  The datastore is one aggregate guarded by a single *)
(* lock; every exported operation but GetStats takes the lock for its      *)
(* whole body, so each such operation is one atomic action.  GetStats      *)
(* loads the two counters without the lock: each load is a step of its     *)
(* own.  Go map iteration order is unspecified, so every loop over a map   *)
(* is modelled as a choice over the elements the loop may reach first.     *)
(***************************************************************************)
EXTENDS Integers, FiniteSets, Sequences, TLC

VARIABLES total, assigned, eniIPPools, podsIP, now, lastOp, granted,
          stats, eniInfos, podInfos, returnedENIInfos, returnedPodInfos, nCalls,
          currentMaxAddrsPerENI, tick, maxENI, manager, cloud, lastChange
\* total, assigned, eniIPPools, podsIP: the fields of DataStore.
\* now:     the reading of time.Now(), in seconds.
\* lastOp:  the last call made on the datastore, its arguments and what it
\*          returned.
\* granted: per pod key, the pair the last successful AssignPodIPv4Address
\*          returned, forgotten when UnAssignPodIPv4Address is called for it.
\* stats:   the call of GetStats in progress or just returned: the counters
\*          it has loaded, and the pairs (total, assigned) the datastore
\*          held since the call began.
\* eniInfos, podInfos: the values the last GetENIInfos and GetPodInfos
\*          returned, as their holder reads them now.
\* returnedENIInfos, returnedPodInfos: the same values as they were read
\*          at the moment of the return.
\* nCalls:  the number of steps taken under a specification that bounds it.
\* currentMaxAddrsPerENI: the field of IPAMD.
\* tick:    one run of the test at the head of updateIPPoolIfRequired: the
\*          pair GetStats gave it and the procedures it then calls.
\* maxENI:  the field of IPAMD.
\* manager: the position of the thread that runs New and then
\*          StartNodeIPPoolManager, with the locals of the procedure it is in.
\* cloud:   the instance as the cloud holds it: the ENIs attached to it and
\*          the secondary addresses allocated on each.
\* lastChange: history: what the pool manager last did to the set of ENIs
\*          since the last assignment, "grow", "shrink" or "none"; kept
\*          under the specification of the undisturbed reconciler only.

vars == <<total, assigned, eniIPPools, podsIP, now, lastOp, granted,
          stats, eniInfos, podInfos, returnedENIInfos, returnedPodInfos, nCalls,
          currentMaxAddrsPerENI, tick, maxENI, manager, cloud, lastChange>>

ipamdVars == <<maxENI, manager, cloud, lastChange>>

managerVars == <<currentMaxAddrsPerENI, tick, maxENI, manager, cloud, lastChange>>

readerVars == <<stats, eniInfos, podInfos, returnedENIInfos, returnedPodInfos, nCalls>>

dsVars == <<total, assigned, eniIPPools, podsIP>>

(***************************************************************************)
(* Bounds and input sets.                                                  *)
(***************************************************************************)
MaxTicks == 1

MaxCalls == 6

MaxPoolIPs == 5

MaxAddrsPerENI == 3

TickStep == 60

ENIs == {"eni-a", "eni-b"}

PrimaryENI == "eni-a"

IPs == {"10.0.0.5", "10.0.0.6"}

NoIP == ""

Pods == {<<"p", "d", "">>, <<"p", "d", "c">>}

NoPod == <<"-", "-", "-">>

NoENI == ""

DeviceNumberOf(eniID) == IF eniID = PrimaryENI THEN 1 ELSE 2

(***************************************************************************)
(* Program constants.                                                      *)
(***************************************************************************)
minLifeTime == 60

addressCoolingPeriod == 60

\* The zero time.Time (year 1); every clock reading is far later than it.
ZeroTime == -100000

DuplicatedENIError == "data store: duplicate ENI"

DuplicateIPError == "datastore: duplicated IP"

UnknownENIError == "add ENI's IP to datastore: unknown ENI"

ErrUnknownPod == "datastore: unknown pod"

ErrUnknownPodIP == "datastore: pod using unknown IP address"

MultipleIPError == "datastore; invalid pod with multiple IP addresses"

NoAvailableIPError == "datastore: no available IP addresses"

NoDeletableENIError == "free ENI: no ENI can be deleted at this time"

NoError == "nil"

(***************************************************************************)
(* Records.                                                                *)
(***************************************************************************)
\* An address record; its key in IPv4Addresses is the address.  The field
\* unAssignedTime (line 64) is written by line 302 and read nowhere: no
\* behaviour depends on it and the record does not carry it.
AddressInfo(isAssigned) == [Assigned |-> isAssigned]

ENIIPPool(deviceNumber, isPrimary, t) ==
    [createTime            |-> t,
     lastUnAssignedTime    |-> ZeroTime,
     IsPrimary             |-> isPrimary,
     DeviceNumber          |-> deviceNumber,
     AssignedIPv4Addresses |-> 0,
     IPv4Addresses         |-> << >>]

PodIPInfo(ip, deviceNumber) == [IP |-> ip, DeviceNumber |-> deviceNumber]

NoGrant == PodIPInfo(NoIP, -1)

\* The call that produced the current state and what it returned.
Call(op, eniID, ip, pod, err, retIP, retDev, retENI) ==
    [op |-> op, eni |-> eniID, ip |-> ip, pod |-> pod,
     err |-> err, retIP |-> retIP, retDev |-> retDev, retENI |-> retENI]

\* f with key k set to v (insert or overwrite a map entry).
MapSet(f, k, v) == [x \in (DOMAIN f) \cup {k} |-> IF x = k THEN v ELSE f[x]]

\* f without key k (delete a map entry).
MapDelete(f, k) == [x \in (DOMAIN f) \ {k} |-> f[x]]

\* No call of GetStats is in progress and none has just returned.
NoStats == [pc |-> "idle", total |-> 0, assigned |-> 0, seen |-> {}]

\* updateIPPoolIfRequired is not running.
NoTick == [pc |-> "idle", total |-> 0, used |-> 0, ran |-> {}]

\* No snapshot has been returned yet.
NoInfos == [none |-> TRUE]

\* The manager's thread has not been created.
NoManager == [pc |-> "none"]

\* No instance is described.
NoCloud == [attached |-> {}, addrs |-> << >>]

\* NewPodKey dropping the container id.
NewPodKeyNoContainer(k8sPod) == <<k8sPod[1], k8sPod[2], "">>

\* The key of a pod in podsIP: its name, namespace and container id.
NewPodKey(k8sPod) == <<k8sPod[1], k8sPod[2], k8sPod[3]>>

\* len(eni.IPv4Addresses)
Len0(eni) == Cardinality(DOMAIN eni.IPv4Addresses)

(***************************************************************************)
(* NewDataStore                                                            *)
(***************************************************************************)
Init ==
    /\ total = 0
    /\ assigned = 0
    /\ eniIPPools = << >>
    /\ podsIP = << >>
    /\ now = 0
    /\ lastOp = Call("NewDataStore", NoENI, NoIP, NoPod, NoError, NoIP, 0, NoENI)
    /\ granted = [p \in Pods |-> NoGrant]
    /\ stats = NoStats
    /\ eniInfos = NoInfos
    /\ podInfos = NoInfos
    /\ returnedENIInfos = NoInfos
    /\ returnedPodInfos = NoInfos
    /\ nCalls = 0
    /\ currentMaxAddrsPerENI = 0
    /\ tick = NoTick
    /\ maxENI = 0
    /\ manager = NoManager
    /\ cloud = NoCloud
    /\ lastChange = "none"

(***************************************************************************)
(* AddENI                                                                  *)
(***************************************************************************)
\* AddENI without the duplicate test of line 120: the record is overwritten.
AddENIOverwrite(eniID, deviceNumber, isPrimary) ==
    /\ eniIPPools' = MapSet(eniIPPools, eniID, ENIIPPool(deviceNumber, isPrimary, now))
    /\ lastOp' = Call("AddENI", eniID, NoIP, NoPod, NoError, NoIP, 0, NoENI)
    /\ UNCHANGED <<total, assigned, podsIP, now, granted>>

AddENI(eniID, deviceNumber, isPrimary) ==
    /\ IF eniID \in DOMAIN eniIPPools
       THEN /\ lastOp' = Call("AddENI", eniID, NoIP, NoPod, DuplicatedENIError, NoIP, 0, NoENI)
            /\ UNCHANGED eniIPPools
       ELSE /\ eniIPPools' = MapSet(eniIPPools, eniID, ENIIPPool(deviceNumber, isPrimary, now))
            /\ lastOp' = Call("AddENI", eniID, NoIP, NoPod, NoError, NoIP, 0, NoENI)
    /\ UNCHANGED <<total, assigned, podsIP, now, granted>>

(***************************************************************************)
(* AddENIIPv4Address                                                       *)
(***************************************************************************)
\* IsDuplicateIP looking for the address in the maps of all ENIs.
IsDuplicateIPAnyENI(eniID, ipv4) ==
    \E e \in DOMAIN eniIPPools : ipv4 \in DOMAIN eniIPPools[e].IPv4Addresses

\* The test of line 148: the address is looked up in the map of curENI only.
IsDuplicateIP(eniID, ipv4) == ipv4 \in DOMAIN eniIPPools[eniID].IPv4Addresses

AddENIIPv4Address(eniID, ipv4) ==
    /\ IF eniID \notin DOMAIN eniIPPools
       THEN /\ lastOp' = Call("AddENIIPv4Address", eniID, ipv4, NoPod, UnknownENIError, NoIP, 0, NoENI)
            /\ UNCHANGED <<total, eniIPPools>>
       ELSE IF IsDuplicateIP(eniID, ipv4)
       THEN /\ lastOp' = Call("AddENIIPv4Address", eniID, ipv4, NoPod, DuplicateIPError, NoIP, 0, NoENI)
            /\ UNCHANGED <<total, eniIPPools>>
       ELSE /\ total' = total + 1
            /\ eniIPPools' = [eniIPPools EXCEPT ![eniID].IPv4Addresses =
                                 MapSet(@, ipv4, AddressInfo(FALSE))]
            /\ lastOp' = Call("AddENIIPv4Address", eniID, ipv4, NoPod, NoError, NoIP, 0, NoENI)
    /\ UNCHANGED <<assigned, podsIP, now, granted>>

(***************************************************************************)
(* assignPodIPv4AddressUnsafe: the two nested loops over the ENI map and   *)
(* over the address map of each ENI that is not skipped.  The loops return *)
(* at the first address that matches, so the possible outcomes are the     *)
(* pairs (eni, address) that some iteration order reaches first.           *)
(***************************************************************************)
\* ENIs the outer loop does not skip (line 193).
VisitedENIs(ip) ==
    {e \in DOMAIN eniIPPools :
        ~(ip = NoIP /\ Len0(eniIPPools[e]) = eniIPPools[e].AssignedIPv4Addresses)}

\* ClaimableAddrs without the !addr.Assigned test of line 211.
ClaimableAddrsAnyFlag(e, ip) ==
    {a \in DOMAIN eniIPPools[e].IPv4Addresses : ip = a \/ ip = NoIP}

\* ClaimableAddrs where the match of line 199 asks for an unassigned address.
ClaimableAddrsRequestedFree(e, ip) ==
    {a \in DOMAIN eniIPPools[e].IPv4Addresses :
        \/ (ip = a /\ ~eniIPPools[e].IPv4Addresses[a].Assigned)
        \/ (~eniIPPools[e].IPv4Addresses[a].Assigned /\ ip = NoIP)}

\* ClaimableAddrs with the test of line 211 inverted (addr.Assigned).
ClaimableAddrsAssignedOnly(e, ip) ==
    {a \in DOMAIN eniIPPools[e].IPv4Addresses :
        \/ ip = a
        \/ (eniIPPools[e].IPv4Addresses[a].Assigned /\ ip = NoIP)}

\* Addresses at which the inner loop returns (lines 199 and 211).
ClaimableAddrs(e, ip) ==
    {a \in DOMAIN eniIPPools[e].IPv4Addresses :
        \/ ip = a
        \/ (~eniIPPools[e].IPv4Addresses[a].Assigned /\ ip = NoIP)}

AssignCandidates(ip) ==
    UNION {{<<e, a>> : a \in ClaimableAddrs(e, ip)} : e \in VisitedENIs(ip)}

\* The pool after the address a of ENI e has been claimed (lines 201-205, 213-215).
ClaimAddress(pools, e, a) ==
    IF pools[e].IPv4Addresses[a].Assigned
    THEN pools
    ELSE [pools EXCEPT ![e].AssignedIPv4Addresses = @ + 1,
                       ![e].IPv4Addresses[a].Assigned = TRUE]

\* ClaimAssigned without the !addr.Assigned guard of line 201.
ClaimAssignedUnguarded(n, e, a) == n + 1

\* ds.assigned after the address a of ENI e has been claimed.
ClaimAssigned(n, e, a) ==
    IF eniIPPools[e].IPv4Addresses[a].Assigned THEN n ELSE n + 1

\* BindPod without the assignment: the address is claimed and no binding
\* is written.
BindPodDropped(pods, podKey, info) == pods

\* ds.podsIP after the assignment of lines 206 and 216.
BindPod(pods, podKey, info) == MapSet(pods, podKey, info)

assignPodIPv4AddressUnsafe(pod, ip) ==
    IF AssignCandidates(ip) = {}
    THEN /\ lastOp' = Call("AssignPodIPv4Address", NoENI, ip, pod, NoAvailableIPError, NoIP, 0, NoENI)
         /\ UNCHANGED <<assigned, eniIPPools, podsIP, granted>>
    ELSE \E c \in AssignCandidates(ip) :
         LET e == c[1]
             a == c[2]
             info == PodIPInfo(a, eniIPPools[e].DeviceNumber)
         IN /\ assigned' = ClaimAssigned(assigned, e, a)
            /\ eniIPPools' = ClaimAddress(eniIPPools, e, a)
            /\ podsIP' = BindPod(podsIP, NewPodKey(pod), info)
            /\ granted' = [granted EXCEPT ![pod] = info]
            /\ lastOp' = Call("AssignPodIPv4Address", NoENI, ip, pod, NoError,
                              a, eniIPPools[e].DeviceNumber, e)

(***************************************************************************)
(* AssignPodIPv4Address                                                    *)
(***************************************************************************)
\* IsDuplicateAssign with the comparison of line 173 inverted.
IsDuplicateAssignInverted(bound, ip) == bound.IP # ip /\ ip # NoIP

\* IsDuplicateAssign without the comparison with the bound address.
IsDuplicateAssignAnyIP(bound, ip) == ip # NoIP

\* The condition of line 173: the repeated call is answered from the binding.
IsDuplicateAssign(bound, ip) == bound.IP = ip /\ ip # NoIP

AssignPodIPv4Address(pod, ip) ==
    /\ IF NewPodKey(pod) \in DOMAIN podsIP
       THEN IF IsDuplicateAssign(podsIP[NewPodKey(pod)], ip)
            THEN /\ lastOp' = Call("AssignPodIPv4Address", NoENI, ip, pod, NoError,
                                   podsIP[NewPodKey(pod)].IP,
                                   podsIP[NewPodKey(pod)].DeviceNumber, NoENI)
                 /\ UNCHANGED <<assigned, eniIPPools, podsIP, granted>>
            ELSE /\ lastOp' = Call("AssignPodIPv4Address", NoENI, ip, pod, MultipleIPError, NoIP, 0, NoENI)
                 /\ UNCHANGED <<assigned, eniIPPools, podsIP, granted>>
       ELSE assignPodIPv4AddressUnsafe(pod, ip)
    /\ UNCHANGED <<total, now>>

(***************************************************************************)
(* getDeletableENI / FreeENI                                               *)
(***************************************************************************)
\* IsDeletable without the test of line 235.
IsDeletableIgnoringPrimary(eni) ==
    /\ ~(now - eni.createTime < minLifeTime)
    /\ ~(now - eni.lastUnAssignedTime < addressCoolingPeriod)
    /\ ~(eni.AssignedIPv4Addresses # 0)

\* IsDeletable without the test of line 243.
IsDeletableIgnoringCooling(eni) ==
    /\ ~eni.IsPrimary
    /\ ~(now - eni.createTime < minLifeTime)
    /\ ~(eni.AssignedIPv4Addresses # 0)

\* IsDeletable without the test of line 247.
IsDeletableIgnoringAssigned(eni) ==
    /\ ~eni.IsPrimary
    /\ ~(now - eni.createTime < minLifeTime)
    /\ ~(now - eni.lastUnAssignedTime < addressCoolingPeriod)

\* The four tests of the loop body of getDeletableENI.
IsDeletable(eni) ==
    /\ ~eni.IsPrimary
    /\ ~(now - eni.createTime < minLifeTime)
    /\ ~(now - eni.lastUnAssignedTime < addressCoolingPeriod)
    /\ ~(eni.AssignedIPv4Addresses # 0)

getDeletableENI == {e \in DOMAIN eniIPPools : IsDeletable(eniIPPools[e])}

\* FreeENI without line 275: the id is returned and the ENI stays in the map.
FreeENIKeepsENI ==
    /\ IF getDeletableENI = {}
       THEN lastOp' = Call("FreeENI", NoENI, NoIP, NoPod, NoDeletableENIError, NoIP, 0, NoENI)
       ELSE \E e \in getDeletableENI :
                lastOp' = Call("FreeENI", NoENI, NoIP, NoPod, NoError, NoIP, 0, e)
    /\ UNCHANGED <<total, assigned, eniIPPools, podsIP, now, granted>>

FreeENI ==
    /\ IF getDeletableENI = {}
       THEN /\ lastOp' = Call("FreeENI", NoENI, NoIP, NoPod, NoDeletableENIError, NoIP, 0, NoENI)
            /\ UNCHANGED <<total, assigned, eniIPPools>>
       ELSE \E e \in getDeletableENI :
            /\ total' = total - Len0(eniIPPools[e])
            /\ assigned' = assigned - eniIPPools[e].AssignedIPv4Addresses
            /\ eniIPPools' = MapDelete(eniIPPools, e)
            /\ lastOp' = Call("FreeENI", NoENI, NoIP, NoPod, NoError, NoIP, 0, e)
    /\ UNCHANGED <<podsIP, now, granted>>

(***************************************************************************)
(* UnAssignPodIPv4Address                                                  *)
(***************************************************************************)
\* UnAssignCandidates without the ip.Assigned test of line 296.
UnAssignCandidatesAnyFlag(ip) ==
    {e \in DOMAIN eniIPPools : ip \in DOMAIN eniIPPools[e].IPv4Addresses}

\* ENIs at which the loop of line 295 may stop for the bound address.
UnAssignCandidates(ip) ==
    {e \in DOMAIN eniIPPools :
        ip \in DOMAIN eniIPPools[e].IPv4Addresses /\ eniIPPools[e].IPv4Addresses[ip].Assigned}

\* ReleaseAddress without line 297: the flag stays set.
ReleaseAddressKeepsFlag(pools, e, ip) ==
    [pools EXCEPT ![e].AssignedIPv4Addresses = @ - 1,
                  ![e].lastUnAssignedTime = now]

\* The pool after the address ip of ENI e has been released (lines 297-303).
ReleaseAddress(pools, e, ip) ==
    [pools EXCEPT ![e].IPv4Addresses[ip] = AddressInfo(FALSE),
                  ![e].AssignedIPv4Addresses = @ - 1,
                  ![e].lastUnAssignedTime = now]

UnAssignPodIPv4Address(pod) ==
    /\ IF NewPodKey(pod) \notin DOMAIN podsIP
       THEN /\ lastOp' = Call("UnAssignPodIPv4Address", NoENI, NoIP, pod, ErrUnknownPod, NoIP, 0, NoENI)
            /\ UNCHANGED <<assigned, eniIPPools, podsIP>>
       ELSE IF UnAssignCandidates(podsIP[NewPodKey(pod)].IP) = {}
       THEN /\ lastOp' = Call("UnAssignPodIPv4Address", NoENI, NoIP, pod, ErrUnknownPodIP, NoIP, 0, NoENI)
            /\ UNCHANGED <<assigned, eniIPPools, podsIP>>
       ELSE \E e \in UnAssignCandidates(podsIP[NewPodKey(pod)].IP) :
            LET ip == podsIP[NewPodKey(pod)].IP
            IN /\ assigned' = assigned - 1
               /\ eniIPPools' = ReleaseAddress(eniIPPools, e, ip)
               /\ podsIP' = MapDelete(podsIP, NewPodKey(pod))
               /\ lastOp' = Call("UnAssignPodIPv4Address", NoENI, NoIP, pod, NoError,
                                 ip, eniIPPools[e].DeviceNumber, e)
    /\ granted' = [granted EXCEPT ![pod] = NoGrant]
    /\ UNCHANGED <<total, now>>

(***************************************************************************)
(* The clock: time.Now() advances between operations.                      *)
(***************************************************************************)
Tick ==
    /\ now < MaxTicks * TickStep
    /\ now' = now + TickStep
    /\ lastOp' = Call("Tick", NoENI, NoIP, NoPod, NoError, NoIP, 0, NoENI)
    /\ UNCHANGED <<total, assigned, eniIPPools, podsIP, granted>>

\* A step of the datastore's clients with no reader of statistics or
\* snapshots at work.
NoReader(Op) == Op /\ UNCHANGED readerVars /\ UNCHANGED managerVars

Next ==
    \/ \E eniID \in ENIs : NoReader(AddENI(eniID, DeviceNumberOf(eniID), eniID = PrimaryENI))
    \/ \E eniID \in ENIs, ipv4 \in IPs : NoReader(AddENIIPv4Address(eniID, ipv4))
    \/ \E pod \in Pods, ip \in IPs \cup {NoIP} : NoReader(AssignPodIPv4Address(pod, ip))
    \/ \E pod \in Pods : NoReader(UnAssignPodIPv4Address(pod))
    \/ NoReader(FreeENI)
    \/ NoReader(Tick)

Spec == Init /\ [][Next]_vars

(***************************************************************************)
(* GetStats, called by the pool manager's thread while the handlers of     *)
(* other threads call the datastore.  It returns ds.total, ds.assigned     *)
(* without taking the lock, so calls on other threads can run between its  *)
(* two loads, which the build may issue in either order.                   *)
(***************************************************************************)
\* The first load: of ds.total or of ds.assigned.
GetStatsLoad(first) ==
    /\ nCalls < MaxCalls
    /\ stats.pc \in {"idle", "returned"}
    /\ stats' = [pc |-> first,
                 total |-> IF first = "total" THEN total ELSE 0,
                 assigned |-> IF first = "assigned" THEN assigned ELSE 0,
                 seen |-> {<<total, assigned>>}]
    /\ lastOp' = Call("GetStats", NoENI, NoIP, NoPod, NoError, NoIP, 0, NoENI)
    /\ nCalls' = nCalls + 1
    /\ UNCHANGED <<total, assigned, eniIPPools, podsIP, now, granted,
                   eniInfos, podInfos, returnedENIInfos, returnedPodInfos, managerVars>>

\* The second load, and the return of the pair.
GetStatsReturn ==
    /\ nCalls < MaxCalls
    /\ stats.pc \in {"total", "assigned"}
    /\ stats' = [pc |-> "returned",
                 total |-> IF stats.pc = "total" THEN stats.total ELSE total,
                 assigned |-> IF stats.pc = "assigned" THEN stats.assigned ELSE assigned,
                 seen |-> stats.seen]
    /\ lastOp' = Call("GetStats", NoENI, NoIP, NoPod, NoError, NoIP, 0, NoENI)
    /\ nCalls' = nCalls + 1
    /\ UNCHANGED <<total, assigned, eniIPPools, podsIP, now, granted,
                   eniInfos, podInfos, returnedENIInfos, returnedPodInfos, managerVars>>

\* A call on another thread: it runs between the two loads of a call of
\* GetStats in progress, whose caller has otherwise consumed the pair.
DuringGetStats(Op) ==
    /\ nCalls < MaxCalls
    /\ Op
    /\ stats' = IF stats.pc \in {"total", "assigned"}
                THEN [stats EXCEPT !.seen = @ \cup {<<total', assigned'>>}]
                ELSE NoStats
    /\ nCalls' = nCalls + 1
    /\ UNCHANGED <<eniInfos, podInfos, returnedENIInfos, returnedPodInfos, managerVars>>

NextStats ==
    \/ \E first \in {"total", "assigned"} : GetStatsLoad(first)
    \/ GetStatsReturn
    \/ \E eniID \in ENIs : DuringGetStats(AddENI(eniID, DeviceNumberOf(eniID), eniID = PrimaryENI))
    \/ \E eniID \in ENIs, ipv4 \in IPs : DuringGetStats(AddENIIPv4Address(eniID, ipv4))
    \/ \E pod \in Pods, ip \in IPs \cup {NoIP} : DuringGetStats(AssignPodIPv4Address(pod, ip))
    \/ \E pod \in Pods : DuringGetStats(UnAssignPodIPv4Address(pod))
    \/ DuringGetStats(FreeENI)
    \/ DuringGetStats(Tick)

SpecStats == Init /\ [][NextStats]_vars

(***************************************************************************)
(* GetENIInfos and GetPodInfos, called by the introspection handlers.      *)
(* Both take the lock.  GetENIInfos copies each ENIIPPool struct, whose    *)
(* IPv4Addresses field is a Go map of pointers: the copy refers to the     *)
(* map of the live record.  GetPodInfos copies PodIPInfo values into a map *)
(* of its own.                                                             *)
(***************************************************************************)
\* The key fmt.Sprintf("%s_%s_%s", ...) of line 322, as its pieces.
IntrospectKey(pod) == <<pod[1], "_", pod[2], "_", pod[3]>>

GetENIInfos ==
    /\ nCalls < MaxCalls
    /\ eniInfos' = [TotalIPs |-> total, AssignedIPs |-> assigned, ENIIPPools |-> eniIPPools]
    /\ returnedENIInfos' = eniInfos'
    /\ lastOp' = Call("GetENIInfos", NoENI, NoIP, NoPod, NoError, NoIP, 0, NoENI)
    /\ nCalls' = nCalls + 1
    /\ UNCHANGED <<total, assigned, eniIPPools, podsIP, now, granted,
                   stats, podInfos, returnedPodInfos, managerVars>>

GetPodInfos ==
    /\ nCalls < MaxCalls
    /\ podInfos' = [key \in {IntrospectKey(p) : p \in DOMAIN podsIP} |->
                       podsIP[CHOOSE p \in DOMAIN podsIP : IntrospectKey(p) = key]]
    /\ returnedPodInfos' = podInfos'
    /\ lastOp' = Call("GetPodInfos", NoENI, NoIP, NoPod, NoError, NoIP, 0, NoENI)
    /\ nCalls' = nCalls + 1
    /\ UNCHANGED <<total, assigned, eniIPPools, podsIP, now, granted,
                   stats, eniInfos, returnedENIInfos, managerVars>>

\* What the holder of infos reads once the datastore holds pools: the
\* IPv4Addresses of a copied ENIIPPool is the map of the record it was
\* copied from, as long as the datastore still holds that record (createTime
\* tells a record from a later one registered under the same id).
SharedMaps(infos, pools) ==
    IF infos = NoInfos
    THEN NoInfos
    ELSE [infos EXCEPT !.ENIIPPools =
             [e \in DOMAIN infos.ENIIPPools |->
                 IF e \in DOMAIN pools /\ pools[e].createTime = infos.ENIIPPools[e].createTime
                 THEN [infos.ENIIPPools[e] EXCEPT !.IPv4Addresses = pools[e].IPv4Addresses]
                 ELSE infos.ENIIPPools[e]]]

\* A call made on the datastore after snapshots were returned.
AfterSnapshot(Op) ==
    /\ nCalls < MaxCalls
    /\ Op
    /\ eniInfos' = SharedMaps(eniInfos, eniIPPools')
    /\ nCalls' = nCalls + 1
    /\ UNCHANGED <<stats, podInfos, returnedENIInfos, returnedPodInfos, managerVars>>

NextSnapshots ==
    \/ GetENIInfos
    \/ GetPodInfos
    \/ \E eniID \in ENIs : AfterSnapshot(AddENI(eniID, DeviceNumberOf(eniID), eniID = PrimaryENI))
    \/ \E eniID \in ENIs, ipv4 \in IPs : AfterSnapshot(AddENIIPv4Address(eniID, ipv4))
    \/ \E pod \in Pods, ip \in IPs \cup {NoIP} : AfterSnapshot(AssignPodIPv4Address(pod, ip))
    \/ \E pod \in Pods : AfterSnapshot(UnAssignPodIPv4Address(pod))
    \/ AfterSnapshot(FreeENI)
    \/ AfterSnapshot(Tick)

SpecSnapshots == Init /\ [][NextSnapshots]_vars

(***************************************************************************)
(* The test at the head of updateIPPoolIfRequired (package ipamd), as a    *)
(* function of the pair GetStats returned and of currentMaxAddrsPerENI.    *)
(* It is applied to every pair and field value within the bounds; the pair *)
(* may have assigned above total, which GetStats can return.               *)
(***************************************************************************)
\* PoolProcedures with < for the <= of line 170.
PoolProceduresStrict(t, used, c) ==
    IF (t - used) < c
    THEN {"increaseIPPool"}
    ELSE IF t - used > 2 * c
    THEN {"decreaseIPPool"}
    ELSE {}

\* The procedures the if / else if of lines 170-174 calls.
PoolProcedures(t, used, c) ==
    IF (t - used) <= c
    THEN {"increaseIPPool"}
    ELSE IF t - used > 2 * c
    THEN {"decreaseIPPool"}
    ELSE {}

InitPool ==
    /\ total = 0
    /\ assigned = 0
    /\ eniIPPools = << >>
    /\ podsIP = << >>
    /\ now = 0
    /\ lastOp = Call("NewDataStore", NoENI, NoIP, NoPod, NoError, NoIP, 0, NoENI)
    /\ granted = [p \in Pods |-> NoGrant]
    /\ stats = NoStats
    /\ eniInfos = NoInfos
    /\ podInfos = NoInfos
    /\ returnedENIInfos = NoInfos
    /\ returnedPodInfos = NoInfos
    /\ nCalls = 0
    /\ currentMaxAddrsPerENI \in 0..MaxAddrsPerENI
    /\ \E t \in 0..MaxPoolIPs, used \in 0..MaxPoolIPs :
           tick = [pc |-> "stats", total |-> t, used |-> used, ran |-> {}]
    /\ maxENI = 0
    /\ manager = NoManager
    /\ cloud = NoCloud
    /\ lastChange = "none"

\* Lines 170-174 applied to the pair at hand.
UpdateIPPoolTest ==
    /\ tick.pc = "stats"
    /\ tick' = [tick EXCEPT !.pc = "done",
                            !.ran = PoolProcedures(tick.total, tick.used, currentMaxAddrsPerENI)]
    /\ UNCHANGED <<total, assigned, eniIPPools, podsIP, now, lastOp, granted,
                   readerVars, currentMaxAddrsPerENI, ipamdVars>>

NextPool == UpdateIPPoolTest

SpecPool == InitPool /\ [][NextPool]_vars

(***************************************************************************)
(* The pool manager (package ipamd): New and init, then the loop of        *)
(* StartNodeIPPoolManager, run by one thread while the handlers of the RPC *)
(* server call the datastore from theirs.  Every call the manager makes on *)
(* the cloud, on the metadata service, on the host network, on the kubelet *)
(* or on the datastore is one step.  The cloud client, the network client  *)
(* and the RPC server are outside of the sources at hand; their steps      *)
(* follow the interface contracts of the specification: every call         *)
(* either succeeds or fails, allocate-ENI answers AttachmentLimitExceeded  *)
(* at the instance's limit, describe-ENI lists the primary address of the  *)
(* ENI and its secondary addresses, the handlers assign without requested  *)
(* IP and release under keys that carry a container id.  The field         *)
(* maxAddrsPerENI is written by setupENI and read by the metrics only; it  *)
(* is left out.                                                            *)
(***************************************************************************)
maxRetryCheckENI == 5

\* The most ENIs the instance may have attached: all the model has.
AttachmentLimit == Cardinality(ENIs)

PrimaryIPOf(eniID) == IF eniID = PrimaryENI THEN "10.0.0.1" ELSE "10.0.0.2"

\* The secondary addresses AllocAllIPAddress obtains for the ENI.
SecondaryIPsOf(eniID) ==
    IF eniID = PrimaryENI THEN {"10.0.0.5", "10.0.0.6", "10.0.0.7", "10.0.0.9"}
    ELSE {"10.0.0.8"}

\* What DescribeENI returns: the addresses of the ENI, with their Primary flag.
DescribeENI(eniID) ==
    {[PrivateIpAddress |-> PrimaryIPOf(eniID), Primary |-> TRUE]} \cup
    {[PrivateIpAddress |-> a, Primary |-> FALSE] : a \in cloud.addrs[eniID]}

\* The pods of the handlers' requests: their keys carry a container id.
RPCPods == {<<"p", "d", "c">>, <<"q", "d", "c">>}

\* A pod as K8SGetLocalPodIPs reports it: Name, Namespace and IP, no Container.
K8SPodInfo(name, namespace, ip) == [pod |-> <<name, namespace, "">>, IP |-> ip]

\* The answers of the kubelet: no pod; one pod; two pods that report one
\* IP; a pod on the host network, which reports the node's own address, and
\* a pod with an address of the pool.
KubeletLists ==
    {<< >>,
     <<K8SPodInfo("p", "d", "10.0.0.5")>>,
     <<K8SPodInfo("p", "d", "10.0.0.5"), K8SPodInfo("q", "d", "10.0.0.5")>>,
     <<K8SPodInfo("p", "d", "10.0.0.1"), K8SPodInfo("q", "d", "10.0.0.6")>>}

KubeletPods == {<<"p", "d", "">>, <<"q", "d", "">>}

ManagerPods == Pods \cup KubeletPods \cup RPCPods

\* The enumerations of the set S, in every order.
SeqsOf(S) ==
    {s \in [1..Cardinality(S) -> S] : \A i, j \in 1..Cardinality(S) : s[i] = s[j] => i = j}

\* The manager at the position pc, with empty locals.
ManagerAt(pc) ==
    [pc |-> pc, init |-> FALSE, eni |-> NoENI, enis |-> << >>, allocErr |-> FALSE,
     ec2Addrs |-> {}, retry |-> 0, usedIPs |-> << >>, listed |-> FALSE, idx |-> 0,
     err |-> NoError]

\* The instance when the daemon starts: the primary ENI is attached, a
\* second ENI may be, and each carries the secondary addresses an earlier
\* run of the daemon allocated, or none.
InitialClouds ==
    {[attached |-> att, addrs |-> [e \in ENIs |-> IF e \in full THEN SecondaryIPsOf(e) ELSE {}]] :
        att \in {{PrimaryENI}, ENIs}, full \in SUBSET ENIs} 

InitManager ==
    /\ total = 0
    /\ assigned = 0
    /\ eniIPPools = << >>
    /\ podsIP = << >>
    /\ now = 0
    /\ lastOp = Call("NewDataStore", NoENI, NoIP, NoPod, NoError, NoIP, 0, NoENI)
    /\ granted = [p \in ManagerPods |-> NoGrant]
    /\ stats = NoStats
    /\ eniInfos = NoInfos
    /\ podInfos = NoInfos
    /\ returnedENIInfos = NoInfos
    /\ returnedPodInfos = NoInfos
    /\ nCalls = 0
    /\ currentMaxAddrsPerENI = 0
    /\ tick = NoTick
    /\ maxENI = 0
    /\ manager = [ManagerAt("New") EXCEPT !.init = TRUE]
    /\ cloud \in {c \in InitialClouds : \A e \in ENIs \ c.attached : c.addrs[e] = {}}
    /\ lastChange = "none"

\* The variables the datastore's operations leave alone.
notDsOpVars == <<readerVars, currentMaxAddrsPerENI, tick, maxENI, cloud>>

\* The variables a step that calls no datastore operation leaves alone.
dsOpVars == <<total, assigned, eniIPPools, podsIP, now, lastOp, granted>>

\* main: New has returned an error, the process exits (part_004 lines 35-39).
Exited(cause) == [ManagerAt("exited") EXCEPT !.err = cause]

\* New has returned and main has started the threads.
Started == manager.pc \notin {"none", "exited"} /\ ~manager.init

(***************************************************************************)
(* New and init                                                            *)
(***************************************************************************)
\* awsutils.New (lines 68-72).
NewAWSClient ==
    /\ manager.pc = "New"
    /\ \E ok \in BOOLEAN :
           manager' = IF ok THEN [manager EXCEPT !.pc = "initNetwork"]
                            ELSE Exited("awsutils.New")
    /\ UNCHANGED <<dsOpVars, notDsOpVars>>

\* initNetwork (lines 93-106): ParseCIDR of the VPC CIDR and SetupHostNetwork.
initNetwork ==
    /\ manager.pc = "initNetwork"
    /\ \E ok \in BOOLEAN :
           manager' = IF ok THEN [manager EXCEPT !.pc = "GetAttachedENIs"]
                            ELSE Exited("initNetwork")
    /\ UNCHANGED <<dsOpVars, notDsOpVars>>

\* GetAttachedENIs and NewDataStore (lines 114-120).
GetAttachedENIs ==
    /\ manager.pc = "GetAttachedENIs"
    /\ \/ manager' = Exited("GetAttachedENIs")
       \/ \E enis \in SeqsOf(cloud.attached) :
              manager' = [manager EXCEPT !.pc = "AllocAllIPAddress",
                                         !.eni = enis[1], !.enis = Tail(enis)]
    /\ UNCHANGED <<dsOpVars, notDsOpVars>>

\* What follows AllocAllIPAddress: setupENI in init, waitENIAttached in
\* increaseIPPool.
AfterAllocAllIPAddress == IF manager.init THEN "AddENI" ELSE "waitENIAttached"

\* AllocAllIPAddress, of init (lines 124-128) and of increaseIPPool (lines
\* 198-201): the error is logged and the procedure goes on.
AllocAllIPAddress ==
    /\ manager.pc = "AllocAllIPAddress"
    /\ \/ /\ cloud' = [cloud EXCEPT !.addrs[manager.eni] = SecondaryIPsOf(manager.eni)]
          /\ manager' = [manager EXCEPT !.pc = AfterAllocAllIPAddress, !.allocErr = FALSE]
       \/ /\ UNCHANGED cloud
          /\ manager' = [manager EXCEPT !.pc = AfterAllocAllIPAddress, !.allocErr = TRUE]
    /\ UNCHANGED <<dsOpVars, readerVars, currentMaxAddrsPerENI, tick, maxENI>>

\* setupENI has returned an error: init returns it and New fails (lines
\* 130-133, 78-80); increaseIPPool logs it and returns (lines 209-212).
SetupFailed ==
    IF manager.init THEN Exited("setupENI") ELSE ManagerAt("sleep")

\* setupENI has returned nil: init goes on with the next ENI or with the
\* kubelet, increaseIPPool returns.
SetupDone ==
    IF ~manager.init THEN ManagerAt("sleep")
    ELSE IF manager.enis # << >>
    THEN [manager EXCEPT !.pc = "AllocAllIPAddress", !.eni = Head(manager.enis),
                         !.enis = Tail(manager.enis), !.ec2Addrs = {}, !.allocErr = FALSE]
    ELSE [manager EXCEPT !.pc = "K8SGetLocalPodIPs", !.eni = NoENI, !.ec2Addrs = {},
                         !.allocErr = FALSE]

\* setupENI, line 230: the ENI is added; DuplicatedENIError is tolerated and
\* AddENI returns no other error.
setupENIAddENI ==
    /\ manager.pc = "AddENI"
    /\ AddENI(manager.eni, DeviceNumberOf(manager.eni), manager.eni = PrimaryENI)
    /\ manager' = [manager EXCEPT !.pc = "getENIaddresses"]
    /\ UNCHANGED notDsOpVars

\* setupENI, lines 235-243: getENIaddresses and the update of
\* currentMaxAddrsPerENI.
getENIaddresses ==
    /\ manager.pc = "getENIaddresses"
    /\ \/ /\ manager' = SetupFailed
          /\ UNCHANGED currentMaxAddrsPerENI
       \/ /\ manager' = [manager EXCEPT !.pc = "SetupENINetwork",
                                        !.ec2Addrs = DescribeENI(manager.eni)]
          /\ currentMaxAddrsPerENI' = Cardinality(DescribeENI(manager.eni))
    /\ UNCHANGED <<dsOpVars, readerVars, tick, maxENI, cloud>>

\* setupENI, lines 245-253: SetupENINetwork for an ENI that is not the
\* primary one.
SetupENINetwork ==
    /\ manager.pc = "SetupENINetwork"
    /\ IF manager.eni # PrimaryENI
       THEN \E ok \in BOOLEAN :
                manager' = IF ok THEN [manager EXCEPT !.pc = "addENIaddressesToDataStore"]
                                 ELSE SetupFailed
       ELSE manager' = [manager EXCEPT !.pc = "addENIaddressesToDataStore"]
    /\ UNCHANGED <<dsOpVars, notDsOpVars>>

\* addENIaddressesToDataStore with the test of line 261 left out.
PoolAddrsWithPrimary(ec2Addrs) == ec2Addrs

\* The addresses addENIaddressesToDataStore passes to the datastore: those
\* line 261 does not skip.
PoolAddrs(ec2Addrs) == {a \in ec2Addrs : ~a.Primary}

\* One iteration of the loop of addENIaddressesToDataStore that calls
\* AddENIIPv4Address; every error of the call is tolerated.
addENIaddressesToDataStore ==
    /\ manager.pc = "addENIaddressesToDataStore"
    /\ \E a \in PoolAddrs(manager.ec2Addrs) :
           /\ AddENIIPv4Address(manager.eni, a.PrivateIpAddress)
           /\ manager' = [manager EXCEPT !.ec2Addrs = @ \ {a}]
    /\ UNCHANGED notDsOpVars

\* The loop of addENIaddressesToDataStore is over and setupENI returns nil.
setupENIReturn ==
    /\ manager.pc = "addENIaddressesToDataStore"
    /\ PoolAddrs(manager.ec2Addrs) = {}
    /\ manager' = SetupDone
    /\ UNCHANGED <<dsOpVars, notDsOpVars>>

\* K8SGetLocalPodIPs (lines 136-142): on an error init returns nil.
K8SGetLocalPodIPs ==
    /\ manager.pc = "K8SGetLocalPodIPs"
    /\ \/ manager' = [manager EXCEPT !.pc = "metrics.New"]
       \/ \E usedIPs \in KubeletLists :
              manager' = [manager EXCEPT !.pc = "AssignPodIPv4Address",
                                         !.usedIPs = usedIPs, !.listed = TRUE]
    /\ UNCHANGED <<dsOpVars, notDsOpVars>>

\* One iteration of the loop of lines 144-153; the error of the call is
\* logged.
RehydratePod ==
    /\ manager.pc = "AssignPodIPv4Address"
    /\ manager.idx < Len(manager.usedIPs)
    /\ AssignPodIPv4Address(manager.usedIPs[manager.idx + 1].pod,
                            manager.usedIPs[manager.idx + 1].IP)
    /\ manager' = [manager EXCEPT !.idx = @ + 1]
    /\ UNCHANGED notDsOpVars

\* init returns nil after the last pod.
initReturn ==
    /\ manager.pc = "AssignPodIPv4Address"
    /\ manager.idx = Len(manager.usedIPs)
    /\ manager' = [manager EXCEPT !.pc = "metrics.New"]
    /\ UNCHANGED <<dsOpVars, notDsOpVars>>

\* New, lines 82-90, and main: metrics.New returns no error, started is set
\* and the threads of the manager and of the RPC server start.
NewReturn ==
    /\ manager.pc = "metrics.New"
    /\ manager' = ManagerAt("sleep")
    /\ UNCHANGED <<dsOpVars, notDsOpVars>>

(***************************************************************************)
(* StartNodeIPPoolManager and updateIPPoolIfRequired                       *)
(***************************************************************************)
\* After the sleep, the first load of GetStats: of ds.total or of
\* ds.assigned, without the lock.
ManagerGetStatsLoad(first) ==
    /\ manager.pc = "sleep"
    /\ manager' = [manager EXCEPT !.pc = "GetStats"]
    /\ tick' = [NoTick EXCEPT !.pc = first,
                              !.total = IF first = "total" THEN total ELSE 0,
                              !.used = IF first = "assigned" THEN assigned ELSE 0]
    /\ UNCHANGED <<dsOpVars, readerVars, currentMaxAddrsPerENI, maxENI, cloud>>

\* The second load, the return of GetStats and the test of lines 170-174.
updateIPPoolIfRequired ==
    /\ manager.pc = "GetStats"
    /\ LET t == IF tick.pc = "total" THEN tick.total ELSE total
           used == IF tick.pc = "assigned" THEN tick.used ELSE assigned
           ran == PoolProcedures(t, used, currentMaxAddrsPerENI)
       IN manager' = [manager EXCEPT !.pc = IF "increaseIPPool" \in ran THEN "increaseIPPool"
                                            ELSE IF "decreaseIPPool" \in ran THEN "decreaseIPPool"
                                            ELSE "sleep"]
    /\ tick' = NoTick
    /\ UNCHANGED <<dsOpVars, readerVars, currentMaxAddrsPerENI, maxENI, cloud>>

\* GetENIs
GetENIs == Cardinality(DOMAIN eniIPPools)

\* SkipIncrease without the test of line 182.
SkipIncreaseNever == FALSE

\* The test of line 182.
SkipIncrease == (maxENI > 0) /\ (maxENI = GetENIs)

AttachmentLimitExceeded == "AttachmentLimitExceeded"

AllocENIError == "AllocENI: error"

\* increaseIPPool, lines 182-196: the test of maxENI and the call of AllocENI,
\* which attaches a new ENI, or fails, with AttachmentLimitExceeded when the
\* instance has as many ENIs as it may have.  The last call, of GetENIs or
\* of AllocENI, is recorded in lastOp.
increaseIPPool ==
    /\ manager.pc = "increaseIPPool"
    /\ IF SkipIncrease
       THEN /\ manager' = ManagerAt("sleep")
            /\ lastOp' = Call("GetENIs", NoENI, NoIP, NoPod, NoError, NoIP, 0, NoENI)
            /\ UNCHANGED <<maxENI, cloud>>
       ELSE IF Cardinality(cloud.attached) >= AttachmentLimit
       THEN /\ maxENI' = GetENIs
            /\ manager' = ManagerAt("sleep")
            /\ lastOp' = Call("AllocENI", NoENI, NoIP, NoPod, AttachmentLimitExceeded, NoIP, 0, NoENI)
            /\ UNCHANGED cloud
       ELSE \/ /\ manager' = ManagerAt("sleep")
               /\ lastOp' = Call("AllocENI", NoENI, NoIP, NoPod, AllocENIError, NoIP, 0, NoENI)
               /\ UNCHANGED <<maxENI, cloud>>
            \/ \E eni \in ENIs \ cloud.attached :
                   /\ cloud' = [cloud EXCEPT !.attached = @ \cup {eni}]
                   /\ manager' = [manager EXCEPT !.pc = "AllocAllIPAddress", !.eni = eni]
                   /\ lastOp' = Call("AllocENI", NoENI, NoIP, NoPod, NoError, NoIP, 0, eni)
                   /\ UNCHANGED maxENI
    /\ UNCHANGED <<total, assigned, eniIPPools, podsIP, now, granted,
                   readerVars, currentMaxAddrsPerENI, tick>>

\* The loop test of line 292 with <= for <.
PollAgainInclusive(retry) == retry <= maxRetryCheckENI

\* The loop test of line 292.
PollAgain(retry) == retry < maxRetryCheckENI

\* waitENIAttached: one iteration of the loop of lines 292-309.  The
\* metadata service fails, does not list the ENI yet, or lists it.
waitENIAttached ==
    /\ manager.pc = "waitENIAttached"
    /\ \/ manager' = [manager EXCEPT !.pc = "AddENI", !.retry = 0]
       \/ manager' = IF PollAgain(manager.retry + 1)
                     THEN [manager EXCEPT !.retry = @ + 1]
                     ELSE ManagerAt("sleep")
    /\ UNCHANGED <<dsOpVars, notDsOpVars>>

\* decreaseIPPool, lines 216-220: FreeENI of the datastore.
decreaseIPPool ==
    /\ manager.pc = "decreaseIPPool"
    /\ FreeENI
    /\ manager' = IF lastOp'.err = NoError
                  THEN [manager EXCEPT !.pc = "awsClient.FreeENI", !.eni = lastOp'.retENI]
                  ELSE ManagerAt("sleep")
    /\ UNCHANGED notDsOpVars

\* decreaseIPPool, line 221: FreeENI of the cloud client, whose error is
\* dropped.
awsClientFreeENI ==
    /\ manager.pc = "awsClient.FreeENI"
    /\ \E ok \in BOOLEAN :
           cloud' = IF ok THEN [cloud EXCEPT !.attached = @ \ {manager.eni},
                                             !.addrs[manager.eni] = {}]
                          ELSE cloud
    /\ manager' = ManagerAt("sleep")
    /\ UNCHANGED <<dsOpVars, readerVars, currentMaxAddrsPerENI, tick, maxENI>>

(***************************************************************************)
(* The handlers of the RPC server and the clock                            *)
(***************************************************************************)
\* A step of a handler or of the clock: the manager stays where it is.
Handler(Op) == Op /\ UNCHANGED manager /\ UNCHANGED notDsOpVars

NoManagerStep(Op) == Handler(Op) /\ UNCHANGED lastChange

\* A step of the manager, the history of the pool left alone.
Untracked(Op) == Op /\ UNCHANGED lastChange

\* assign-pod: AssignPodIPv4Address without requested IP.
AddNetwork(pod) == Started /\ NoManagerStep(AssignPodIPv4Address(pod, NoIP))

\* release-pod: UnAssignPodIPv4Address.
DelNetwork(pod) == Started /\ NoManagerStep(UnAssignPodIPv4Address(pod))

ManagerClock == Started /\ NoManagerStep(Tick)

ManagerStep ==
    \/ Untracked(NewAWSClient)
    \/ Untracked(initNetwork)
    \/ Untracked(GetAttachedENIs)
    \/ Untracked(AllocAllIPAddress)
    \/ Untracked(setupENIAddENI)
    \/ Untracked(getENIaddresses)
    \/ Untracked(SetupENINetwork)
    \/ Untracked(addENIaddressesToDataStore)
    \/ Untracked(setupENIReturn)
    \/ Untracked(K8SGetLocalPodIPs)
    \/ Untracked(RehydratePod)
    \/ Untracked(initReturn)
    \/ Untracked(NewReturn)
    \/ \E first \in {"total", "assigned"} : Untracked(ManagerGetStatsLoad(first))
    \/ Untracked(updateIPPoolIfRequired)
    \/ Untracked(increaseIPPool)
    \/ Untracked(waitENIAttached)
    \/ Untracked(decreaseIPPool)
    \/ Untracked(awsClientFreeENI)

NextManager ==
    \/ ManagerStep
    \/ \E pod \in RPCPods : AddNetwork(pod)
    \/ \E pod \in RPCPods : DelNetwork(pod)
    \/ ManagerClock

SpecManager == InitManager /\ [][NextManager]_vars

\* The manager's thread runs New and then loops for ever, sleeping
\* ipPoolMonitorInterval between two runs of updateIPPoolIfRequired; every
\* call it makes returns, so it always takes its next step.
SpecManagerFair == InitManager /\ [][NextManager]_vars /\ WF_vars(ManagerStep)

(***************************************************************************)
(* The undisturbed reconciler: New, the pool manager and the handlers when *)
(* every call of the cloud, of the metadata service, of the kubelet and of *)
(* the network set-up succeeds, AttachmentLimitExceeded at the limit of    *)
(* the instance apart.  lastChange keeps what the manager last did to the  *)
(* set of ENIs since the last assignment or release.                       *)
(***************************************************************************)
\* The call the manager's step makes returns without error; waitENIAttached
\* finds the ENI listed.
CallsSucceed ==
    /\ manager'.pc # "exited"
    /\ manager.pc = "AllocAllIPAddress" => ~manager'.allocErr
    /\ manager.pc = "getENIaddresses" => manager'.pc = "SetupENINetwork"
    /\ manager.pc = "SetupENINetwork" => manager'.pc = "addENIaddressesToDataStore"
    /\ manager.pc = "K8SGetLocalPodIPs" => manager'.listed
    /\ manager.pc = "increaseIPPool" => lastOp'.err # AllocENIError
    /\ manager.pc = "waitENIAttached" => manager'.pc = "AddENI"
    /\ manager.pc = "awsClient.FreeENI" => manager.eni \notin cloud'.attached

\* The step is setupENI's AddENI of increaseIPPool adding an ENI to the
\* datastore.
AddsENIByGrow == ~manager.init /\ DOMAIN eniIPPools' \ DOMAIN eniIPPools # {}

\* The step is decreaseIPPool's FreeENI removing an ENI from the datastore.
RemovesENIByShrink == DOMAIN eniIPPools \ DOMAIN eniIPPools' # {}

\* The history after a step of the manager.
ChangeAfterManager ==
    IF AddsENIByGrow
    THEN IF lastChange \in {"shrink", "grow, shrink"} THEN "shrink, grow" ELSE "grow"
    ELSE IF RemovesENIByShrink
    THEN IF lastChange \in {"grow", "shrink, grow"} THEN "grow, shrink" ELSE "shrink"
    ELSE lastChange

\* The history after a step of a handler: a call that returns no error
\* assigns or releases an address.
ChangeAfterHandler == IF lastOp'.err = NoError THEN "none" ELSE lastChange

Reconciling(Op) == Op /\ CallsSucceed /\ lastChange' = ChangeAfterManager

ReconcilerAddNetwork(pod) ==
    /\ Started
    /\ Handler(AssignPodIPv4Address(pod, NoIP))
    /\ lastChange' = ChangeAfterHandler

ReconcilerDelNetwork(pod) ==
    /\ Started
    /\ Handler(UnAssignPodIPv4Address(pod))
    /\ lastChange' = ChangeAfterHandler

NextReconciler ==
    \/ Reconciling(NewAWSClient)
    \/ Reconciling(initNetwork)
    \/ Reconciling(GetAttachedENIs)
    \/ Reconciling(AllocAllIPAddress)
    \/ Reconciling(setupENIAddENI)
    \/ Reconciling(getENIaddresses)
    \/ Reconciling(SetupENINetwork)
    \/ Reconciling(addENIaddressesToDataStore)
    \/ Reconciling(setupENIReturn)
    \/ Reconciling(K8SGetLocalPodIPs)
    \/ Reconciling(RehydratePod)
    \/ Reconciling(initReturn)
    \/ Reconciling(NewReturn)
    \/ \E first \in {"total", "assigned"} : Reconciling(ManagerGetStatsLoad(first))
    \/ Reconciling(updateIPPoolIfRequired)
    \/ Reconciling(increaseIPPool)
    \/ Reconciling(waitENIAttached)
    \/ Reconciling(decreaseIPPool)
    \/ Reconciling(awsClientFreeENI)
    \/ \E pod \in RPCPods : ReconcilerAddNetwork(pod)
    \/ \E pod \in RPCPods : ReconcilerDelNetwork(pod)
    \/ ManagerClock

SpecReconciler == InitManager /\ [][NextReconciler]_vars

(***************************************************************************)
(* Helpers of the properties.                                              *)
(***************************************************************************)
RECURSIVE SumOver(_, _)
\* The sum of f[x] over the elements x of S.
SumOver(S, f) ==
    IF S = {} THEN 0
    ELSE LET x == CHOOSE y \in S : TRUE IN f[x] + SumOver(S \ {x}, f)

\* The addresses of an ENI whose Assigned flag is set.
AssignedAddrs(eni) == {a \in DOMAIN eni.IPv4Addresses : eni.IPv4Addresses[a].Assigned}

\* The ENIs that hold the IP literal ip.
OwnersOf(ip) == {e \in DOMAIN eniIPPools : ip \in DOMAIN eniIPPools[e].IPv4Addresses}

\* The step is a call of AssignPodIPv4Address for pod p.
IsAssignStep(p) == lastOp'.op = "AssignPodIPv4Address" /\ lastOp'.pod = p

\* The step is a call of UnAssignPodIPv4Address for pod p.
IsUnAssignStep(p) == lastOp'.op = "UnAssignPodIPv4Address" /\ lastOp'.pod = p

\* The call returned exactly the pair info, without error.
Returned(info) ==
    /\ lastOp'.err = NoError
    /\ lastOp'.retIP = info.IP
    /\ lastOp'.retDev = info.DeviceNumber

(***************************************************************************)
(* C1: counter consistency.  In every reachable state each ENI's           *)
(* AssignedIPv4Addresses equals the number of its addresses flagged        *)
(* Assigned, total equals the number of addresses summed over the ENIs,    *)
(* and assigned equals the sum of the per-ENI counters.                    *)
(***************************************************************************)
CounterConsistency ==
    /\ \A e \in DOMAIN eniIPPools :
          eniIPPools[e].AssignedIPv4Addresses = Cardinality(AssignedAddrs(eniIPPools[e]))
    /\ total = SumOver(DOMAIN eniIPPools, [e \in DOMAIN eniIPPools |-> Len0(eniIPPools[e])])
    /\ assigned = SumOver(DOMAIN eniIPPools,
                          [e \in DOMAIN eniIPPools |-> eniIPPools[e].AssignedIPv4Addresses])

\* An ENI has just been freed while another ENI holds assigned and free addresses.
CounterConsistencyWitness ==
    /\ lastOp.op = "FreeENI"
    /\ lastOp.err = NoError
    /\ assigned > 0
    /\ total > assigned

(***************************************************************************)
(* C2: pod-binding invariant.  Every entry of the pod-binding table points *)
(* to an IP that is an address of exactly one ENI, and that address has    *)
(* Assigned = true.                                                        *)
(***************************************************************************)
PodBindingInvariant ==
    \A p \in DOMAIN podsIP :
        /\ Cardinality(OwnersOf(podsIP[p].IP)) = 1
        /\ \A e \in OwnersOf(podsIP[p].IP) :
              eniIPPools[e].IPv4Addresses[podsIP[p].IP].Assigned

(***************************************************************************)
(* C3: no double assignment.  No two distinct pod keys have bindings to    *)
(* the same IP.                                                            *)
(***************************************************************************)
NoDoubleAssignment ==
    \A p, q \in DOMAIN podsIP : p # q => podsIP[p].IP # podsIP[q].IP

(***************************************************************************)
(* C4: FreeENI never removes an ENI that still holds a live address: when  *)
(* FreeENI returns an ENI id, no pod binding refers to an address of that  *)
(* ENI (its IP is an address of the ENI and its device number is the       *)
(* ENI's).                                                                 *)
(***************************************************************************)
FreeENIHoldsNoBinding ==
    [][(lastOp'.op = "FreeENI" /\ lastOp'.err = NoError) =>
          \A p \in DOMAIN podsIP :
              ~(/\ lastOp'.retENI \in DOMAIN eniIPPools
                /\ podsIP[p].IP \in DOMAIN eniIPPools[lastOp'.retENI].IPv4Addresses
                /\ podsIP[p].DeviceNumber = eniIPPools[lastOp'.retENI].DeviceNumber)]_vars

(***************************************************************************)
(* C5: assign of a pod that already has a binding, with an empty requested *)
(* IP, succeeds, returns the binding's (ip, device number) and changes     *)
(* nothing.                                                                *)
(***************************************************************************)
RetriedAssignReturnsBinding ==
    [][\A p \in DOMAIN podsIP :
          (IsAssignStep(p) /\ lastOp'.ip = NoIP) =>
              (Returned(podsIP[p]) /\ UNCHANGED dsVars)]_vars

(***************************************************************************)
(* C6: assign is idempotent for equal (pod key, non-empty IP) pairs: once  *)
(* assign of pod p has returned (X, d), an assign of p that requests X     *)
(* returns (X, d) again and leaves counters, flags and bindings unchanged. *)
(***************************************************************************)
AssignIdempotent ==
    [][\A p \in Pods :
          (IsAssignStep(p) /\ lastOp'.ip # NoIP /\ granted[p].IP = lastOp'.ip) =>
              (Returned(granted[p]) /\ UNCHANGED dsVars)]_vars

\* A repeated assign with the bound IP has just been answered from the binding.
AssignIdempotentWitness ==
    /\ lastOp.op = "AssignPodIPv4Address"
    /\ lastOp.ip # NoIP
    /\ lastOp.err = NoError
    /\ lastOp.retENI = NoENI
    /\ granted[lastOp.pod].IP = lastOp.ip

(***************************************************************************)
(* C7: conflicting re-assign.  An assign for a pod key bound to X that     *)
(* requests a non-empty Y # X fails with the multiple-IP error and leaves  *)
(* the datastore unchanged.                                                *)
(***************************************************************************)
ConflictingReassignRefused ==
    [][\A p \in DOMAIN podsIP :
          (IsAssignStep(p) /\ lastOp'.ip # NoIP /\ lastOp'.ip # podsIP[p].IP) =>
              (/\ lastOp'.err = MultipleIPError
               /\ lastOp'.retIP = NoIP
               /\ UNCHANGED dsVars)]_vars

\* A bound pod has just asked for another IP, one that is registered and free.
ConflictingReassignWitness ==
    /\ lastOp.op = "AssignPodIPv4Address"
    /\ lastOp.ip # NoIP
    /\ lastOp.pod \in DOMAIN podsIP
    /\ podsIP[lastOp.pod].IP # lastOp.ip
    /\ \E e \in OwnersOf(lastOp.ip) : ~eniIPPools[e].IPv4Addresses[lastOp.ip].Assigned

(***************************************************************************)
(* C8: for a pod key without binding and an empty requested IP, assign     *)
(* succeeds iff some registered address is unassigned (total > assigned);  *)
(* on success it returns an address that was unassigned before the call    *)
(* and the device number of its ENI; on failure it returns the             *)
(* no-available-address error and changes nothing.                         *)
(***************************************************************************)
AssignEmptyRequest ==
    [][\A p \in Pods :
          (IsAssignStep(p) /\ lastOp'.ip = NoIP /\ p \notin DOMAIN podsIP) =>
              /\ (lastOp'.err = NoError) <=> (total > assigned)
              /\ (lastOp'.err = NoError) <=>
                     (\E e \in DOMAIN eniIPPools :
                         AssignedAddrs(eniIPPools[e]) # DOMAIN eniIPPools[e].IPv4Addresses)
              /\ lastOp'.err = NoError =>
                     /\ lastOp'.retENI \in DOMAIN eniIPPools
                     /\ lastOp'.retIP \in DOMAIN eniIPPools[lastOp'.retENI].IPv4Addresses
                     /\ ~eniIPPools[lastOp'.retENI].IPv4Addresses[lastOp'.retIP].Assigned
                     /\ lastOp'.retDev = eniIPPools[lastOp'.retENI].DeviceNumber
              /\ lastOp'.err # NoError =>
                     /\ lastOp'.err = NoAvailableIPError
                     /\ UNCHANGED dsVars]_vars

\* An assign without requested IP has just failed on an exhausted, non-empty pool.
AssignEmptyRequestWitness ==
    /\ lastOp.op = "AssignPodIPv4Address"
    /\ lastOp.ip = NoIP
    /\ lastOp.err = NoAvailableIPError
    /\ total > 0
    /\ total = assigned

(***************************************************************************)
(* C9: every successful assign that inserts a new pod binding sets the     *)
(* claimed address's flag and increments assigned and the owning ENI's     *)
(* counter by exactly one, leaving total, the other addresses and the      *)
(* other bindings unchanged.                                               *)
(***************************************************************************)
AssignClaimEffect ==
    [][\A p \in Pods :
          (IsAssignStep(p) /\ lastOp'.err = NoError /\ p \notin DOMAIN podsIP) =>
              LET e == lastOp'.retENI
                  a == lastOp'.retIP
              IN /\ eniIPPools'[e].IPv4Addresses[a].Assigned
                 /\ assigned' = assigned + 1
                 /\ eniIPPools'[e].AssignedIPv4Addresses =
                        eniIPPools[e].AssignedIPv4Addresses + 1
                 /\ total' = total
                 /\ \A f \in DOMAIN eniIPPools : f # e => eniIPPools'[f] = eniIPPools[f]
                 /\ \A b \in DOMAIN eniIPPools[e].IPv4Addresses :
                        b # a => eniIPPools'[e].IPv4Addresses[b] = eniIPPools[e].IPv4Addresses[b]
                 /\ DOMAIN podsIP' = DOMAIN podsIP \cup {p}
                 /\ \A q \in DOMAIN podsIP : podsIP'[q] = podsIP[q]]_vars

(***************************************************************************)
(* C10: release round trip.  After an assign of pod p returned (ip, d) and *)
(* no other call for p intervened, release of p returns (ip, d), clears    *)
(* the address's flag, decrements assigned and the ENI's counter by one,   *)
(* sets the ENI's last-unassigned time to now, deletes the binding and     *)
(* leaves total unchanged.                                                 *)
(***************************************************************************)
ReleaseRoundTrip ==
    [][\A p \in Pods :
          (IsUnAssignStep(p) /\ granted[p] # NoGrant) =>
              LET e == lastOp'.retENI
                  a == granted[p].IP
              IN /\ Returned(granted[p])
                 /\ e \in DOMAIN eniIPPools
                 /\ eniIPPools[e].DeviceNumber = granted[p].DeviceNumber
                 /\ eniIPPools'[e].IPv4Addresses[a] = AddressInfo(FALSE)
                 /\ eniIPPools'[e].lastUnAssignedTime = now
                 /\ eniIPPools'[e].AssignedIPv4Addresses =
                        eniIPPools[e].AssignedIPv4Addresses - 1
                 /\ assigned' = assigned - 1
                 /\ total' = total
                 /\ p \notin DOMAIN podsIP']_vars

(***************************************************************************)
(* C11: release errors.  A release of a pod key that has no binding        *)
(* returns ErrUnknownPod; a release of a pod key whose bound IP is not an  *)
(* assigned address of any ENI returns ErrUnknownPodIP; both leave the     *)
(* counters, flags, timestamps and bindings unchanged.  A release of a pod *)
(* right after its successful release returns ErrUnknownPod.               *)
(***************************************************************************)
ReleaseErrors ==
    [][\A p \in Pods :
          IsUnAssignStep(p) =>
              /\ p \notin DOMAIN podsIP =>
                     lastOp'.err = ErrUnknownPod /\ UNCHANGED dsVars
              /\ (/\ p \in DOMAIN podsIP
                  /\ \A e \in OwnersOf(podsIP[p].IP) :
                         ~eniIPPools[e].IPv4Addresses[podsIP[p].IP].Assigned) =>
                     lastOp'.err = ErrUnknownPodIP /\ UNCHANGED dsVars
              /\ (/\ lastOp.op = "UnAssignPodIPv4Address"
                  /\ lastOp.pod = p
                  /\ lastOp.err = NoError) =>
                     lastOp'.err = ErrUnknownPod]_vars

\* A release has just failed with ErrUnknownPodIP and the binding is still there.
ReleaseErrorsWitness ==
    /\ lastOp.op = "UnAssignPodIPv4Address"
    /\ lastOp.err = ErrUnknownPodIP
    /\ lastOp.pod \in DOMAIN podsIP

(***************************************************************************)
(* C12: release of all pods.  When release has been called, after its last *)
(* successful assign, for every pod key that has a binding, assigned is 0  *)
(* and no address of any ENI has its flag set.                             *)
(***************************************************************************)
ReleasedAllNoneAssigned ==
    (\A p \in DOMAIN podsIP : granted[p] = NoGrant) =>
        /\ assigned = 0
        /\ \A e \in DOMAIN eniIPPools :
               /\ AssignedAddrs(eniIPPools[e]) = {}
               /\ eniIPPools[e].AssignedIPv4Addresses = 0

\* The last binding of a pool of two addresses has just been released.
ReleasedAllWitness ==
    /\ lastOp.op = "UnAssignPodIPv4Address"
    /\ lastOp.err = NoError
    /\ DOMAIN podsIP = {}
    /\ total = 2
    /\ assigned = 0

\* The step is a call of FreeENI that returned an ENI id.
IsFreeStep == lastOp'.op = "FreeENI" /\ lastOp'.err = NoError

(***************************************************************************)
(* C13: FreeENI never removes the primary ENI nor an ENI with assigned     *)
(* addresses.  An ENI registered with isPrimary = true stays registered    *)
(* across every step, and the ENI whose id FreeENI returns was not primary *)
(* and had AssignedIPv4Addresses = 0 when removed.                         *)
(***************************************************************************)
FreeENISparesPrimaryAndUsed ==
    [][/\ \A e \in DOMAIN eniIPPools :
              eniIPPools[e].IsPrimary =>
                  e \in DOMAIN eniIPPools' /\ eniIPPools'[e].IsPrimary
       /\ IsFreeStep =>
              /\ lastOp'.retENI \in DOMAIN eniIPPools
              /\ lastOp'.retENI \notin DOMAIN eniIPPools'
              /\ ~eniIPPools[lastOp'.retENI].IsPrimary
              /\ eniIPPools[lastOp'.retENI].AssignedIPv4Addresses = 0
              /\ AssignedAddrs(eniIPPools[lastOp'.retENI]) = {}]_vars

\* FreeENI removed an ENI while the primary ENI was old enough and unused.
FreeENISparesPrimaryWitness ==
    /\ lastOp.op = "FreeENI"
    /\ lastOp.err = NoError
    /\ PrimaryENI \in DOMAIN eniIPPools
    /\ eniIPPools[PrimaryENI].IsPrimary
    /\ eniIPPools[PrimaryENI].AssignedIPv4Addresses = 0
    /\ now - eniIPPools[PrimaryENI].createTime >= minLifeTime

\* ENIs that are not primary, hold no assigned address, were registered at
\* least minLifeTime ago and saw no release during addressCoolingPeriod.
PastBothWindows ==
    {e \in DOMAIN eniIPPools :
        /\ ~eniIPPools[e].IsPrimary
        /\ eniIPPools[e].AssignedIPv4Addresses = 0
        /\ now - eniIPPools[e].createTime >= minLifeTime
        /\ \/ eniIPPools[e].lastUnAssignedTime = ZeroTime
           \/ now - eniIPPools[e].lastUnAssignedTime >= addressCoolingPeriod}

(***************************************************************************)
(* C14: FreeENI respects the two windows.  createTime of an ENI is the     *)
(* time of its AddENI and lastUnAssignedTime the time of the most recent   *)
(* successful release on it (zero if none).  FreeENI removes an ENI only   *)
(* if at least 60 s passed since both; an ENI never released from is not   *)
(* held back by the cooling period; when some non-primary unused ENI is    *)
(* past both windows FreeENI returns one of them.                          *)
(***************************************************************************)
FreeENIRespectsWindows ==
    [][/\ \A e \in DOMAIN eniIPPools' :
              IF e \notin DOMAIN eniIPPools
              THEN /\ lastOp'.op = "AddENI" /\ lastOp'.eni = e
                   /\ eniIPPools'[e].createTime = now
                   /\ eniIPPools'[e].lastUnAssignedTime = ZeroTime
              ELSE /\ eniIPPools'[e].createTime = eniIPPools[e].createTime
                   /\ eniIPPools'[e].lastUnAssignedTime =
                          IF /\ lastOp'.op = "UnAssignPodIPv4Address"
                             /\ lastOp'.err = NoError
                             /\ lastOp'.retENI = e
                          THEN now
                          ELSE eniIPPools[e].lastUnAssignedTime
       /\ lastOp'.op = "FreeENI" =>
              IF PastBothWindows = {}
              THEN lastOp'.err = NoDeletableENIError
              ELSE lastOp'.err = NoError /\ lastOp'.retENI \in PastBothWindows]_vars

\* FreeENI has just refused while only the cooling period holds back an ENI.
FreeENICoolingWitness ==
    /\ lastOp.op = "FreeENI"
    /\ lastOp.err = NoDeletableENIError
    /\ \E e \in DOMAIN eniIPPools :
           /\ ~eniIPPools[e].IsPrimary
           /\ eniIPPools[e].AssignedIPv4Addresses = 0
           /\ now - eniIPPools[e].createTime >= minLifeTime
           /\ now - eniIPPools[e].lastUnAssignedTime < addressCoolingPeriod

(***************************************************************************)
(* C15: effect of FreeENI.  When FreeENI returns an id, that ENI is no     *)
(* longer registered, total has decreased by the number of its addresses,  *)
(* assigned, every other ENI and every binding are unchanged.  When no ENI *)
(* is deletable it returns an error and changes nothing.                   *)
(***************************************************************************)
FreeENIEffect ==
    [][lastOp'.op = "FreeENI" =>
          IF lastOp'.err = NoError
          THEN LET e == lastOp'.retENI
               IN /\ e \in DOMAIN eniIPPools
                  /\ DOMAIN eniIPPools' = DOMAIN eniIPPools \ {e}
                  /\ total' = total - Cardinality(DOMAIN eniIPPools[e].IPv4Addresses)
                  /\ assigned' = assigned
                  /\ \A f \in DOMAIN eniIPPools' : eniIPPools'[f] = eniIPPools[f]
                  /\ podsIP' = podsIP
          ELSE /\ lastOp'.err = NoDeletableENIError
               /\ UNCHANGED dsVars]_vars

\* FreeENI has just removed an ENI while another ENI serves a bound pod.
FreeENIEffectWitness ==
    /\ lastOp.op = "FreeENI"
    /\ lastOp.err = NoError
    /\ lastOp.retENI \notin DOMAIN eniIPPools
    /\ DOMAIN podsIP # {}
    /\ assigned > 0

(***************************************************************************)
(* C16: registration outcomes.  AddENI of a registered id returns the      *)
(* duplicate-ENI error and changes nothing; AddENIIPv4Address returns an   *)
(* error and changes nothing for an unknown ENI and for an IP the ENI      *)
(* already holds; a success adds one unassigned address and increments     *)
(* total.  Hence registering again an ENI and addresses that are already   *)
(* registered leaves the datastore as it was.                              *)
(***************************************************************************)
RegistrationOutcomes ==
    [][/\ lastOp'.op = "AddENI" =>
              LET e == lastOp'.eni
              IN IF e \in DOMAIN eniIPPools
                 THEN lastOp'.err = DuplicatedENIError /\ UNCHANGED dsVars
                 ELSE /\ lastOp'.err = NoError
                      /\ DOMAIN eniIPPools' = DOMAIN eniIPPools \cup {e}
                      /\ eniIPPools'[e].IPv4Addresses = << >>
                      /\ eniIPPools'[e].AssignedIPv4Addresses = 0
                      /\ \A f \in DOMAIN eniIPPools : eniIPPools'[f] = eniIPPools[f]
                      /\ UNCHANGED <<total, assigned, podsIP>>
       /\ lastOp'.op = "AddENIIPv4Address" =>
              LET e == lastOp'.eni
                  a == lastOp'.ip
              IN IF e \notin DOMAIN eniIPPools
                 THEN lastOp'.err = UnknownENIError /\ UNCHANGED dsVars
                 ELSE IF a \in DOMAIN eniIPPools[e].IPv4Addresses
                 THEN lastOp'.err = DuplicateIPError /\ UNCHANGED dsVars
                 ELSE /\ lastOp'.err = NoError
                      /\ total' = total + 1
                      /\ DOMAIN eniIPPools' = DOMAIN eniIPPools
                      /\ DOMAIN eniIPPools'[e].IPv4Addresses =
                             DOMAIN eniIPPools[e].IPv4Addresses \cup {a}
                      /\ ~eniIPPools'[e].IPv4Addresses[a].Assigned
                      /\ \A b \in DOMAIN eniIPPools[e].IPv4Addresses :
                             eniIPPools'[e].IPv4Addresses[b] = eniIPPools[e].IPv4Addresses[b]
                      /\ eniIPPools'[e].AssignedIPv4Addresses =
                             eniIPPools[e].AssignedIPv4Addresses
                      /\ \A f \in DOMAIN eniIPPools : f # e => eniIPPools'[f] = eniIPPools[f]
                      /\ UNCHANGED <<assigned, podsIP>>]_vars

\* An address that serves a pod has just been registered again, in vain.
RegistrationOutcomesWitness ==
    /\ lastOp.op = "AddENIIPv4Address"
    /\ lastOp.err = DuplicateIPError
    /\ lastOp.eni \in DOMAIN eniIPPools
    /\ lastOp.ip \in AssignedAddrs(eniIPPools[lastOp.eni])

(***************************************************************************)
(* C17 as stated: in every state no IP literal is present in two ENIs.     *)
(***************************************************************************)
IPUniqueAcrossENIs ==
    \A a \in IPs : Cardinality(OwnersOf(a)) <= 1

(***************************************************************************)
(* C17 as amended: AddENIIPv4Address looks for the IP in the named ENI     *)
(* only.  It returns the duplicate-IP error exactly when the named ENI     *)
(* already holds the IP and succeeds exactly when the ENI is registered    *)
(* and does not hold it, whatever the other ENIs hold; an ENI never holds  *)
(* an IP literal twice.                                                    *)
(***************************************************************************)
DuplicateIPCheckedPerENI ==
    [][lastOp'.op = "AddENIIPv4Address" =>
          LET e == lastOp'.eni
              a == lastOp'.ip
              held == e \in DOMAIN eniIPPools /\ a \in DOMAIN eniIPPools[e].IPv4Addresses
          IN /\ lastOp'.err = DuplicateIPError <=> held
             /\ lastOp'.err = NoError <=> (e \in DOMAIN eniIPPools /\ ~held)
             /\ lastOp'.err = NoError =>
                    Cardinality(DOMAIN eniIPPools'[e].IPv4Addresses) =
                        Cardinality(DOMAIN eniIPPools[e].IPv4Addresses) + 1]_vars

\* An IP that another ENI holds has just been registered with success.
DuplicateIPCheckedPerENIWitness ==
    /\ lastOp.op = "AddENIIPv4Address"
    /\ lastOp.err = NoError
    /\ Cardinality(OwnersOf(lastOp.ip)) = 2

(***************************************************************************)
(* C18: GetStats is atomic.  The pair a call of GetStats returns is a pair *)
(* (total, assigned) the datastore held at one moment between the call and *)
(* the return, so assigned does not exceed total in it.                    *)
(***************************************************************************)
GetStatsAtomic ==
    stats.pc = "returned" =>
        /\ <<stats.total, stats.assigned>> \in stats.seen
        /\ stats.assigned <= stats.total

(***************************************************************************)
(* C19: snapshots share no state with the live records.  What GetENIInfos  *)
(* and GetPodInfos returned (counters, per-ENI address maps, flags, pod    *)
(* entries) reads the same after any later call on the datastore.          *)
(***************************************************************************)
SnapshotsUnshared ==
    /\ eniInfos = returnedENIInfos
    /\ podInfos = returnedPodInfos

(***************************************************************************)
(* C20: triggers of the pool manager.  With (total, used) from GetStats    *)
(* and c = currentMaxAddrsPerENI, a tick runs increaseIPPool exactly when  *)
(* total - used <= c, runs decreaseIPPool exactly when total - used > 2c,  *)
(* and never runs both.                                                    *)
(***************************************************************************)
PoolTriggers ==
    tick.pc = "done" =>
        /\ "increaseIPPool" \in tick.ran <=>
               tick.total - tick.used <= currentMaxAddrsPerENI
        /\ "decreaseIPPool" \in tick.ran <=>
               tick.total - tick.used > 2 * currentMaxAddrsPerENI
        /\ tick.ran \in {{}, {"increaseIPPool"}, {"decreaseIPPool"}}

\* A tick with exactly c free addresses has run increaseIPPool.
PoolTriggersWitness ==
    /\ tick.pc = "done"
    /\ currentMaxAddrsPerENI > 0
    /\ tick.total - tick.used = currentMaxAddrsPerENI
    /\ tick.ran = {"increaseIPPool"}

(***************************************************************************)
(* C25: pod keys are compared literally.  A call of assign or release for  *)
(* one pod key leaves the binding of every other key as it was, also of    *)
(* the key that differs in the container id only; release of (n, ns, c)    *)
(* when only (n, ns, "") is bound returns ErrUnknownPod and leaves that    *)
(* binding and the flag of its address as they were.                       *)
(***************************************************************************)
PodKeysLiteral ==
    [][\A p \in Pods :
          (IsAssignStep(p) \/ IsUnAssignStep(p)) =>
              /\ \A q \in Pods \ {p} :
                     /\ q \in DOMAIN podsIP <=> q \in DOMAIN podsIP'
                     /\ q \in DOMAIN podsIP => podsIP'[q] = podsIP[q]
              /\ (IsUnAssignStep(p) /\ p \notin DOMAIN podsIP) =>
                     lastOp'.err = ErrUnknownPod /\ UNCHANGED dsVars
              /\ (IsAssignStep(p) /\ p \notin DOMAIN podsIP /\ lastOp'.err = NoError) =>
                     p \in DOMAIN podsIP']_vars

\* Release of (p, d, c) has just been refused while (p, d, "") holds an
\* assigned address.
PodKeysLiteralWitness ==
    /\ lastOp.op = "UnAssignPodIPv4Address"
    /\ lastOp.pod = <<"p", "d", "c">>
    /\ lastOp.err = ErrUnknownPod
    /\ <<"p", "d", "">> \in DOMAIN podsIP
    /\ \E e \in DOMAIN eniIPPools :
           podsIP[<<"p", "d", "">>].IP \in AssignedAddrs(eniIPPools[e])

\* The key under which start-up rehydration binds the pod of key p.
RehydrationKey(p) == <<p[1], p[2], "">>

\* The step is an assign without requested IP for the key p, which carries a
\* container id and has no binding, while the pod's rehydration key is bound
\* to an address whose flag is set.
IsRPCAssignAfterRehydration(p) ==
    /\ IsAssignStep(p)
    /\ lastOp'.ip = NoIP
    /\ p[3] # ""
    /\ p \notin DOMAIN podsIP
    /\ RehydrationKey(p) \in DOMAIN podsIP
    /\ \E e \in OwnersOf(podsIP[RehydrationKey(p)].IP) :
           eniIPPools[e].IPv4Addresses[podsIP[RehydrationKey(p)].IP].Assigned

(***************************************************************************)
(* C26 as stated: a pod bound under (name, namespace, "") to the IP X and  *)
(* then assigned under (name, namespace, container) without requested IP   *)
(* ends up with two bindings that both point to X.                         *)
(***************************************************************************)
RehydratedPodSharesIP ==
    [][\A p \in Pods :
          IsRPCAssignAfterRehydration(p) =>
              /\ p \in DOMAIN podsIP'
              /\ RehydrationKey(p) \in DOMAIN podsIP'
              /\ podsIP'[p].IP = podsIP'[RehydrationKey(p)].IP]_vars

(***************************************************************************)
(* C26, amended: the assign under (name, namespace, container) without     *)
(* requested IP leaves the binding of (name, namespace, "") as it was and  *)
(* either binds the key to an address whose flag was unset before the      *)
(* call, which is a different address than X whenever X is registered on   *)
(* one ENI only, or fails with the no-available-address error and adds no  *)
(* binding.                                                                *)
(***************************************************************************)
RehydratedPodGetsSecondIP ==
    [][\A p \in Pods :
          IsRPCAssignAfterRehydration(p) =>
              /\ RehydrationKey(p) \in DOMAIN podsIP'
              /\ podsIP'[RehydrationKey(p)] = podsIP[RehydrationKey(p)]
              /\ lastOp'.err = NoError =>
                     /\ p \in DOMAIN podsIP'
                     /\ podsIP'[p].IP = lastOp'.retIP
                     /\ lastOp'.retENI \in DOMAIN eniIPPools
                     /\ ~eniIPPools[lastOp'.retENI].IPv4Addresses[lastOp'.retIP].Assigned
                     /\ eniIPPools'[lastOp'.retENI].IPv4Addresses[lastOp'.retIP].Assigned
                     /\ Cardinality(OwnersOf(podsIP[RehydrationKey(p)].IP)) = 1 =>
                            podsIP'[p].IP # podsIP'[RehydrationKey(p)].IP
              /\ lastOp'.err # NoError =>
                     /\ lastOp'.err = NoAvailableIPError
                     /\ p \notin DOMAIN podsIP']_vars

\* The pod bound to 10.0.0.5 under its rehydration key has just been given
\* 10.0.0.6 under the key with the container id.
RehydratedPodGetsSecondIPWitness ==
    /\ lastOp.op = "AssignPodIPv4Address"
    /\ lastOp.pod = <<"p", "d", "c">>
    /\ lastOp.ip = NoIP
    /\ lastOp.err = NoError
    /\ <<"p", "d", "">> \in DOMAIN podsIP
    /\ podsIP[<<"p", "d", "">>].IP = "10.0.0.5"
    /\ <<"p", "d", "c">> \in DOMAIN podsIP
    /\ podsIP[<<"p", "d", "c">>].IP = "10.0.0.6"
    /\ \A a \in {"10.0.0.5", "10.0.0.6"} :
           \E e \in OwnersOf(a) : eniIPPools[e].IPv4Addresses[a].Assigned

(***************************************************************************)
(* C22 as stated: start-up fails, and the process exits, only when the     *)
(* cloud client cannot be constructed, when the host network cannot be set *)
(* up or when the list of the attached ENIs cannot be retrieved; every     *)
(* other error of init leaves the daemon running.                          *)
(***************************************************************************)
StartupFailsOnlyOnThree ==
    manager.pc = "exited" =>
        manager.err \in {"awsutils.New", "initNetwork", "GetAttachedENIs"}

(***************************************************************************)
(* C27 as stated: host network setup for an ENI is never invoked before    *)
(* the addresses of that ENI have been registered in the datastore.  The   *)
(* manager is about to call SetupENINetwork for the ENI whose addresses    *)
(* getENIaddresses has returned.                                           *)
(***************************************************************************)
NetworkSetupAfterAddresses ==
    (manager.pc = "SetupENINetwork" /\ manager.eni # PrimaryENI) =>
        /\ manager.eni \in DOMAIN eniIPPools
        /\ \A a \in PoolAddrs(manager.ec2Addrs) :
               a.PrivateIpAddress \in DOMAIN eniIPPools[manager.eni].IPv4Addresses

(***************************************************************************)
(* C29: bounded attach wait.  While increaseIPPool waits for the ENI it    *)
(* has allocated, the ENI is not registered and fewer than                 *)
(* maxRetryCheckENI polls of the metadata service have failed; a poll that *)
(* lists the ENI ends the wait at once and setupENI is entered for that    *)
(* ENI; a poll that does not is counted, and the fifth of them ends the    *)
(* attempt with the datastore as it was.                                   *)
(***************************************************************************)
BoundedAttachWait ==
    [][manager.pc = "waitENIAttached" =>
          /\ manager.retry < maxRetryCheckENI
          /\ manager.retry < 5
          /\ manager.eni \notin DOMAIN eniIPPools
          /\ manager' # manager =>
                 \/ /\ manager'.pc = "AddENI"
                    /\ manager'.eni = manager.eni
                    /\ UNCHANGED dsVars
                 \/ /\ manager'.pc = "waitENIAttached"
                    /\ manager'.eni = manager.eni
                    /\ manager'.retry = manager.retry + 1
                    /\ manager'.retry < 5
                    /\ UNCHANGED dsVars
                 \/ /\ manager'.pc = "sleep"
                    /\ manager.retry + 1 = 5
                    /\ manager.eni \notin DOMAIN eniIPPools'
                    /\ UNCHANGED dsVars]_vars

\* The attempt to grow that allocated eni-b has ended after the last poll:
\* the manager sleeps, no call of the datastore has followed AllocENI and
\* eni-b is attached and not registered.
BoundedAttachWaitWitness ==
    /\ manager.pc = "sleep"
    /\ lastOp.op = "AllocENI"
    /\ lastOp.err = NoError
    /\ lastOp.retENI = "eni-b"
    /\ "eni-b" \in cloud.attached
    /\ "eni-b" \notin DOMAIN eniIPPools

\* The primary addresses of the ENIs.
PrimaryIPs == {PrimaryIPOf(e) : e \in ENIs}

(***************************************************************************)
(* C30: the primary address of an ENI is never in the pool.  The datastore *)
(* holds for an ENI only secondary addresses the cloud has allocated on    *)
(* it, no assign returns the primary address of an ENI, and when the loop  *)
(* of addENIaddressesToDataStore is over every secondary address           *)
(* DescribeENI returned for the ENI is registered, whether                 *)
(* AllocAllIPAddress failed or not.                                        *)
(***************************************************************************)
PrimaryAddressNotPooled ==
    /\ \A e \in DOMAIN eniIPPools :
           /\ DOMAIN eniIPPools[e].IPv4Addresses \cap PrimaryIPs = {}
           /\ DOMAIN eniIPPools[e].IPv4Addresses \subseteq cloud.addrs[e]
    /\ (lastOp.op = "AssignPodIPv4Address" /\ lastOp.err = NoError) =>
           lastOp.retIP \notin PrimaryIPs
    /\ \A p \in DOMAIN podsIP : podsIP[p].IP \notin PrimaryIPs
    /\ (manager.pc = "addENIaddressesToDataStore" /\ PoolAddrs(manager.ec2Addrs) = {}) =>
           /\ manager.eni \in DOMAIN eniIPPools
           /\ cloud.addrs[manager.eni] \subseteq DOMAIN eniIPPools[manager.eni].IPv4Addresses

\* AllocAllIPAddress has failed for eni-a and the addresses an earlier run
\* had allocated on it are registered.
PrimaryAddressNotPooledWitness ==
    /\ manager.pc = "addENIaddressesToDataStore"
    /\ PoolAddrs(manager.ec2Addrs) = {}
    /\ manager.allocErr
    /\ manager.eni = "eni-a"
    /\ DOMAIN eniIPPools["eni-a"].IPv4Addresses = SecondaryIPsOf("eni-a")

(***************************************************************************)
(* C23: attachment-limit cap.  maxENI changes only when AllocENI answers   *)
(* AttachmentLimitExceeded, and then becomes the number of ENIs of the     *)
(* datastore; the datastore never holds more ENIs than a discovered        *)
(* maxENI; while it holds exactly maxENI of them increaseIPPool returns    *)
(* after GetENIs, leaving the cloud alone, so that AllocENI is called      *)
(* under a discovered maxENI only when the datastore holds fewer ENIs,     *)
(* that is after FreeENI has removed one.                                  *)
(***************************************************************************)
AttachmentLimitCap ==
    [][/\ maxENI > 0 => GetENIs <= maxENI
       /\ maxENI' # maxENI =>
              /\ manager.pc = "increaseIPPool"
              /\ lastOp'.op = "AllocENI"
              /\ lastOp'.err = AttachmentLimitExceeded
       /\ (manager.pc = "increaseIPPool" /\ manager' # manager) =>
              /\ lastOp'.op \in {"GetENIs", "AllocENI"}
              /\ (lastOp'.op = "AllocENI" /\ lastOp'.err = AttachmentLimitExceeded) =>
                     /\ maxENI' = GetENIs
                     /\ manager'.pc = "sleep"
                     /\ UNCHANGED <<cloud, dsVars>>
              /\ (maxENI > 0 /\ maxENI = GetENIs) =>
                     /\ lastOp'.op = "GetENIs"
                     /\ manager'.pc = "sleep"
                     /\ UNCHANGED <<cloud, maxENI, dsVars>>
              /\ (maxENI > 0 /\ lastOp'.op = "AllocENI") => GetENIs < maxENI]_vars

\* maxENI was discovered to be 2, eni-b has been removed since, and AllocENI
\* has been called again and has allocated it anew.
AttachmentLimitCapWitness ==
    /\ maxENI = 2
    /\ lastOp.op = "AllocENI"
    /\ lastOp.err = NoError
    /\ lastOp.retENI = "eni-b"
    /\ GetENIs = 1

\* The addresses registered in the datastore.
RegisteredIPs == UNION {DOMAIN eniIPPools[e].IPv4Addresses : e \in DOMAIN eniIPPools}

\* The pods of the list K8SGetLocalPodIPs returned to init.
ListedPods == {manager.usedIPs[i] : i \in 1..Len(manager.usedIPs)}

(***************************************************************************)
(* C24: start-up rehydration.  When init has returned and the kubelet's    *)
(* list was retrieved, every listed pod whose IP is registered is bound    *)
(* under (name, namespace, "") to that IP, with the device number of the   *)
(* ENI that holds it, and the address is flagged assigned; a listed pod    *)
(* whose IP is not registered has no binding; no other binding exists;     *)
(* every registered address that no listed pod reports is unassigned; and  *)
(* assigned is the number of distinct registered IPs the list reports.     *)
(***************************************************************************)
RehydrationComplete ==
    (manager.pc = "metrics.New" /\ manager.listed) =>
        /\ \A x \in ListedPods :
               IF x.IP \in RegisteredIPs
               THEN /\ x.pod \in DOMAIN podsIP
                    /\ podsIP[x.pod].IP = x.IP
                    /\ \E e \in OwnersOf(x.IP) :
                           /\ eniIPPools[e].IPv4Addresses[x.IP].Assigned
                           /\ podsIP[x.pod].DeviceNumber = eniIPPools[e].DeviceNumber
               ELSE x.pod \notin DOMAIN podsIP
        /\ DOMAIN podsIP \subseteq {x.pod : x \in ListedPods}
        /\ \A e \in DOMAIN eniIPPools :
               AssignedAddrs(eniIPPools[e]) \subseteq {x.IP : x \in ListedPods}
        /\ assigned = Cardinality({x.IP : x \in ListedPods} \cap RegisteredIPs)

\* init has returned after a list of two pods: the pod that reports the
\* node's own address was skipped and the other one is bound to 10.0.0.6.
RehydrationCompleteWitness ==
    /\ manager.pc = "metrics.New"
    /\ manager.listed
    /\ Len(manager.usedIPs) = 2
    /\ manager.usedIPs[1].IP = "10.0.0.1"
    /\ <<"p", "d", "">> \notin DOMAIN podsIP
    /\ <<"q", "d", "">> \in DOMAIN podsIP
    /\ podsIP[<<"q", "d", "">>].IP = "10.0.0.6"
    /\ assigned = 1
    /\ total > 1

\* The addresses of the ENI: its primary address and the secondary ones the
\* cloud holds for it.
AddrsOfENI(eniID) == {PrimaryIPOf(eniID)} \cup cloud.addrs[eniID]

(***************************************************************************)
(* C28: shrink ordering.  Every ENI of the datastore is attached in the    *)
(* cloud; when the manager is about to call the cloud's FreeENI, the ENI   *)
(* it passes has been removed from the datastore, no pod is bound to an    *)
(* address of that ENI, and an assign that has returned since returned an  *)
(* address of another ENI; every successful assign returns an address of   *)
(* an ENI that is registered and attached.                                 *)
(***************************************************************************)
ShrinkOrdering ==
    /\ DOMAIN eniIPPools \subseteq cloud.attached
    /\ manager.pc = "awsClient.FreeENI" =>
           /\ manager.eni \notin DOMAIN eniIPPools
           /\ manager.eni \in cloud.attached
           /\ \A p \in DOMAIN podsIP : podsIP[p].IP \notin AddrsOfENI(manager.eni)
           /\ (lastOp.op = "AssignPodIPv4Address" /\ lastOp.err = NoError) =>
                  lastOp.retIP \notin AddrsOfENI(manager.eni)
    /\ (lastOp.op = "AssignPodIPv4Address" /\ lastOp.err = NoError) =>
           /\ lastOp.retENI \in DOMAIN eniIPPools
           /\ lastOp.retENI \in cloud.attached
           /\ lastOp.retIP \in cloud.addrs[lastOp.retENI]

\* FreeENI has removed eni-b, which holds 10.0.0.8, and before the manager
\* calls the cloud an assign has returned another address.
ShrinkOrderingWitness ==
    /\ manager.pc = "awsClient.FreeENI"
    /\ manager.eni = "eni-b"
    /\ cloud.addrs["eni-b"] = {"10.0.0.8"}
    /\ lastOp.op = "AssignPodIPv4Address"
    /\ lastOp.err = NoError
    /\ lastOp.retIP # "10.0.0.8"

\* The ENI is attached to the instance and unknown to the datastore while
\* the manager is between two ticks.
Leaked(eniID) ==
    /\ manager.pc = "sleep"
    /\ eniID \in cloud.attached
    /\ eniID \notin DOMAIN eniIPPools

(***************************************************************************)
(* C21 as stated: contained failures.  An ENI that is attached in the      *)
(* cloud and unknown to the datastore after a tick is registered or        *)
(* released at the latest by some later tick: no ENI stays attached for    *)
(* ever while unknown to the datastore.                                    *)
(***************************************************************************)
NoENILeakedForever ==
    \A eniID \in ENIs :
        Leaked(eniID) ~> (eniID \notin cloud.attached \/ eniID \in DOMAIN eniIPPools)

\* The ENIs on which the address ip is flagged assigned.
FlaggedOn(ip) == {e \in OwnersOf(ip) : eniIPPools[e].IPv4Addresses[ip].Assigned}

\* The pod keys bound to the address ip.
BoundTo(ip) == {p \in DOMAIN podsIP : podsIP[p].IP = ip}

(***************************************************************************)
(* C31: no leaked assigned address.  In every reachable state of the       *)
(* datastore every address whose Assigned flag is set is the IP of at      *)
(* least one pod binding, and an IP is flagged on no more ENIs than there  *)
(* are pod keys bound to it, so that releasing the bound keys returns      *)
(* every assigned address to the pool.                                     *)
(***************************************************************************)
NoLeakedAssignedAddress ==
    \A ip \in RegisteredIPs :
        /\ FlaggedOn(ip) # {} => BoundTo(ip) # {}
        /\ Cardinality(FlaggedOn(ip)) <= Cardinality(BoundTo(ip))

\* A release has just returned 10.0.0.5, which is registered on both ENIs,
\* and the address is still flagged on one ENI and bound to the other pod.
NoLeakedAssignedAddressWitness ==
    /\ lastOp.op = "UnAssignPodIPv4Address"
    /\ lastOp.err = NoError
    /\ lastOp.retIP = "10.0.0.5"
    /\ Cardinality(OwnersOf("10.0.0.5")) = 2
    /\ Cardinality(FlaggedOn("10.0.0.5")) = 1
    /\ Cardinality(BoundTo("10.0.0.5")) = 1


(***************************************************************************)
(* C32: the reconciler stabilises.  With every call succeeding, a tick of  *)
(* the pool manager that removes an ENI by decreaseIPPool is never         *)
(* followed, without an assignment or a release between the two, by a tick *)
(* that adds an ENI by increaseIPPool, nor a tick that adds one by a tick  *)
(* that removes one, also when the ENIs report different numbers of        *)
(* addresses.                                                              *)
(***************************************************************************)
NoGrowShrinkAlternation == lastChange \notin {"grow, shrink", "shrink, grow"}

====
